---- MODULE Spec2Model ----
(***************************************************************************)
(* torrentmatch (tm.py): matching of torrent manifests against a media     *)
(* tree, per-entry candidate resolution, and the size-based copy engine.   *)
(*                                                                         *)
(* A file name is a sequence of one-character strings, a path a sequence   *)
(* of names, a file a record [size, data] where data identifies the blob   *)
(* the bytes were taken from (a file holding the first k bytes of a blob   *)
(* of n > k bytes is a partial copy of it).                                *)
(***************************************************************************)
EXTENDS Integers, Sequences, FiniteSets, TLC

\* ------------------------------------------------------------------ bounds
MaxSize == 2
MaxTol == 1
MaxEntries == 3
MaxCands == 3
MaxCalls == 2

\* ------------------------------------------------------------ string basics
Range(s) == { s[k] : k \in 1..Len(s) }

Max(a, b) == IF a >= b THEN a ELSE b

Abs(x) == IF x < 0 THEN -x ELSE x

\* str.endswith
endswith(s, suf) ==
    /\ Len(suf) <= Len(s)
    /\ SubSeq(s, Len(s) - Len(suf) + 1, Len(s)) = suf

\* str.removesuffix
removesuffix(s, suf) ==
    IF Len(suf) > 0 /\ endswith(s, suf) THEN SubSeq(s, 1, Len(s) - Len(suf)) ELSE s

\* substring test, as used by the glob pattern "*.torrent*"
contains(s, sub) ==
    \E k \in 0..(Len(s) - Len(sub)) : SubSeq(s, k + 1, k + Len(sub)) = sub

Upper == <<"A","B","C","D","E","F","G","H","I","J","K","L","M",
           "N","O","P","Q","R","S","T","U","V","W","X","Y","Z">>
Lower == <<"a","b","c","d","e","f","g","h","i","j","k","l","m",
           "n","o","p","q","r","s","t","u","v","w","x","y","z">>

lowerChar(c) ==
    IF \E k \in 1..26 : Upper[k] = c
    THEN Lower[CHOOSE k \in 1..26 : Upper[k] = c]
    ELSE c

\* str.lower
lower(s) == [k \in 1..Len(s) |-> lowerChar(s[k])]

\* str.replace for single characters
replaceChar(s, from, to) == [k \in 1..Len(s) |-> IF s[k] = from THEN to ELSE s[k]]

\* str.rfind for a single character: the last 1-based position, 0 when absent
rfind(s, c) ==
    IF \E k \in 1..Len(s) : s[k] = c
    THEN CHOOSE k \in 1..Len(s) : s[k] = c /\ \A m \in (k+1)..Len(s) : s[m] # c
    ELSE 0

\* PurePath.stem: the name without its last suffix; a leading or trailing dot
\* is not a suffix separator
stem(name) ==
    LET d == rfind(name, ".")
    IN IF d > 1 /\ d < Len(name) THEN SubSeq(name, 1, d - 1) ELSE name

\* PurePath.suffix
suffix(name) ==
    LET d == rfind(name, ".")
    IN IF d > 1 /\ d < Len(name) THEN SubSeq(name, d, Len(name)) ELSE <<>>

Digits == <<"0","1","2","3","4","5","6","7","8","9">>

\* str(int) for a non-negative integer
RECURSIVE str(_)
str(n) == IF n < 10 THEN <<Digits[n + 1]>> ELSE str(n \div 10) \o <<Digits[(n % 10) + 1]>>

\* --------------------------------------------------------------- ignore policy
ignored == {
    <<".","D","S","_","S","t","o","r","e">>,
    <<"T","h","u","m","b","s",".","d","b">>,
    <<"@","e","a","D","i","r">>,
    <<"d","e","s","k","t","o","p",".","i","n","i">>,
    <<"e","h","t","h","u","m","b","s",".","d","b">>,
    <<".","_",".","D","S","_","S","t","o","r","e">> }

ignored_suffixes == {
    <<"@","S","y","n","o","E","A","S","t","r","e","a","m">>,
    <<"@","S","y","n","o","R","e","s","o","u","r","c","e">> }

is_ignored_nosuffix(filename) == filename \in ignored

is_ignored(filename) ==
    \/ filename \in ignored
    \/ \E suf \in ignored_suffixes : endswith(filename, suf)

\* ------------------------------------------------------------ name similarity
\* length of the common run of a and b that starts after positions i and j
RECURSIVE run_length(_, _, _, _, _, _)
run_length(a, b, i, j, ahi, bhi) ==
    IF i < ahi /\ j < bhi /\ a[i + 1] = b[j + 1]
    THEN 1 + run_length(a, b, i + 1, j + 1, ahi, bhi)
    ELSE 0

\* the scan of find_longest_match over the start positions j in b for one
\* start position i in a; a later block replaces the best one only when it is
\* strictly longer
RECURSIVE scan_row(_, _, _, _, _, _, _)
scan_row(a, b, i, j, ahi, bhi, best) ==
    IF j >= bhi THEN best
    ELSE LET k == run_length(a, b, i, j, ahi, bhi)
         IN scan_row(a, b, i, j + 1, ahi, bhi, IF k > best[3] THEN <<i, j, k>> ELSE best)

\* the scan over the start positions i in a, ascending
RECURSIVE scan_blocks(_, _, _, _, _, _, _)
scan_blocks(a, b, i, ahi, blo, bhi, best) ==
    IF i >= ahi THEN best
    ELSE LET row == scan_row(a, b, i, blo, ahi, bhi, best)
         IN IF row[3] >= 0 THEN scan_blocks(a, b, i + 1, ahi, blo, bhi, row) ELSE best

\* difflib.SequenceMatcher.find_longest_match without junk: the longest block
\* a[i+1..i+k] = b[j+1..j+k] inside the two windows, the one starting earliest
\* in a and, among those, earliest in b; <<alo, blo, 0>> when nothing matches.
find_longest_match(a, b, alo, ahi, blo, bhi) ==
    scan_blocks(a, b, alo, ahi, blo, bhi, <<alo, blo, 0>>)

\* SequenceMatcher.get_matching_blocks: total number of matched characters
RECURSIVE matched(_, _, _, _, _, _)
matched(a, b, alo, ahi, blo, bhi) ==
    LET m == find_longest_match(a, b, alo, ahi, blo, bhi)
    IN IF m[3] = 0 THEN 0
       ELSE m[3]
            + (IF alo < m[1] /\ blo < m[2]
               THEN matched(a, b, alo, m[1], blo, m[2]) ELSE 0)
            + (IF m[1] + m[3] < ahi /\ m[2] + m[3] < bhi
               THEN matched(a, b, m[1] + m[3], ahi, m[2] + m[3], bhi) ELSE 0)

\* SequenceMatcher.ratio as the fraction <<numerator, denominator>> = 2*M / T,
\* 1 when both strings are empty
ratio(a, b) ==
    IF Len(a) + Len(b) = 0 THEN <<1, 1>>
    ELSE <<2 * matched(a, b, 0, Len(a), 0, Len(b)), Len(a) + Len(b)>>

name_similarity(a, b) ==
    ratio(replaceChar(lower(stem(a)), "_", " "), replaceChar(lower(stem(b)), "_", " "))

\* comparison of two scores p/q (denominators are positive)
ScoreGt(p, q) == p[1] * q[2] > q[1] * p[2]

\* the confidence threshold 0.55 = 11/20
Threshold == <<11, 20>>


\* ------------------------------------------------------------------- state
VARIABLES
    fs,            \* the filesystem: absolute path -> [size, data]
    scan,          \* listing order of the media root (what rglob yields for files)
    tlist,         \* listing order of the torrent directory (names)
    decoder,       \* blob -> what the torrent decoder returns for it
    tol,           \* size_tolerance_bytes
    mode,          \* "collect" or "report", or the unit under test
    pc,            \* position of the run
    run,           \* 1 for the first run, 2 for a run after an interruption
    folder_stats,  \* compare_torrents_with_media: folder -> <<total_size, file_count>>
    media_by_size, \* compare_torrents_with_media: size -> files
    results,       \* compare_torrents_with_media: the returned list
    item,          \* collect_torrents_and_media: index of the current result item
    ent,           \* collect_torrents_and_media: index of the current entry or match
    wr,            \* destination being written by shutil.copy2, <<>> when none
    log,           \* what quick_copy did, call by call
    printed,       \* report output: [extra, missing]
    prev,          \* kept for the properties: the earlier results or filesystems
    changed,       \* the last size change: <<path, old size, new size>> or <<>>
    tf_name,       \* resolver: filename of the manifest entry
    size_matches,  \* resolver: the size-filtered candidate list
    scores,        \* resolver: the similarity of each candidate, <<>> when not computed
    candidate,     \* resolver: the chosen file, <<>> when none
    src,           \* quick_copy argument
    dest,          \* quick_copy argument
    overwrite      \* quick_copy argument

vars == <<fs, scan, tlist, decoder, tol, mode, pc, run, folder_stats, media_by_size,
          results, item, ent, wr, log, printed, prev, changed, tf_name, size_matches,
          scores, candidate, src, dest, overwrite>>

inputVars == <<scan, tlist, decoder, tol, mode>>
compareVars == <<folder_stats, media_by_size, results>>
resolverVars == <<tf_name, size_matches, scores, candidate>>
callVars == <<src, dest, overwrite>>

\* ------------------------------------------------------------------- paths
TORRENTS_IN == <<"t","o","r","r","e","n","t","s">>
MEDIA_IN == <<"m","e","d","i","a","_","i","n">>
TORRENTS_OUT == <<"o","u","t","_","t","o","r","r","e","n","t","s">>
MEDIA_OUT == <<"o","u","t","_","m","e","d","i","a">>

DOT_TORRENT == <<".","t","o","r","r","e","n","t">>
DOT_ADDED == <<".","a","d","d","e","d">>

\* Path.name
name(p) == p[Len(p)]

\* Path.parent
parent(p) == SubSeq(p, 1, Len(p) - 1)

\* Path.with_name
with_name(p, n) == parent(p) \o <<n>>

\* Path.relative_to
relative_to(p, d) == SubSeq(p, Len(d) + 1, Len(p))

\* p lies strictly below directory d
IsUnder(p, d) == Len(p) > Len(d) /\ SubSeq(p, 1, Len(d)) = d

PairLess(a, b) == a[1] < b[1] \/ (a[1] = b[1] /\ a[2] < b[2])

\* the elements of set S as a sequence, smallest key first; key maps each
\* element to a pair, and keys are distinct
RECURSIVE SortBy(_, _)
SortBy(S, key) ==
    IF S = {} THEN <<>>
    ELSE LET m == CHOOSE x \in S : \A y \in S \ {x} : PairLess(key[x], key[y])
         IN <<m>> \o SortBy(S \ {m}, key)

\* [f for f in d.rglob("*") if f.is_file()], in listing order
rglob_files(f, order, d) ==
    SelectSeq(order, LAMBDA p : p \in DOMAIN f /\ IsUnder(p, d))

\* the directories strictly below d that hold a file somewhere in their subtree
\* (a directory with an empty subtree gets file_count = 0 and no statistics)
DirsBelow(f, d) ==
    UNION { { SubSeq(p, 1, k) : k \in (Len(d) + 1)..(Len(p) - 1) } :
              p \in { q \in DOMAIN f : IsUnder(q, d) } }

\* [d for d in media_dir.rglob("*") if d.is_dir()]: a directory is listed
\* before its subdirectories, directories in the order of the listing
rglob_dirs(f, order, d) ==
    LET firstFile(x) == CHOOSE k \in 1..Len(order) :
                           /\ order[k] \in DOMAIN f /\ IsUnder(order[k], x)
                           /\ \A m \in 1..(k-1) : ~(order[m] \in DOMAIN f /\ IsUnder(order[m], x))
        ds == DirsBelow(f, d)
    IN SortBy(ds, [x \in ds |-> <<firstFile(x), Len(x)>>])

RECURSIVE SumSizes(_, _)
SumSizes(f, ps) == IF ps = <<>> THEN 0 ELSE f[Head(ps)].size + SumSizes(f, Tail(ps))


RECURSIVE Flatten(_)
Flatten(ss) == IF ss = <<>> THEN <<>> ELSE Head(ss) \o Flatten(Tail(ss))

\* the distinct elements of a sequence, in order of first appearance
RECURSIVE Dedup(_)
Dedup(s) ==
    IF s = <<>> THEN <<>>
    ELSE LET r == Dedup(SubSeq(s, 1, Len(s) - 1))
         IN IF s[Len(s)] \in Range(r) THEN r ELSE Append(r, s[Len(s)])

\* unicodedata.normalize("NFC", part) on each part: every name of this model
\* is ASCII, and NFC leaves ASCII text as it is
normalize_path(p) == p

\* --------------------------------------------------------------- torrents
\* Torrent.from_file succeeds on a complete, well-formed torrent file
CanDecode(f, dec, p) ==
    /\ p \in DOMAIN f
    /\ f[p].data \in DOMAIN dec
    /\ dec[f[p].data].ok
    /\ f[p].size = dec[f[p].data].bytes

from_file(f, dec, p) == dec[f[p].data]

\* torrent_dir.glob("*.torrent*"), in listing order
glob_torrents(f, tl, dir) ==
    SelectSeq(tl, LAMBDA n : (dir \o <<n>>) \in DOMAIN f /\ contains(n, DOT_TORRENT))

\* Torrent.files: (path, length) pairs, the paths below the root name
torrent_files(t) ==
    IF t.hasFiles
    THEN [k \in 1..Len(t.files) |->
            [path |-> <<t.name>> \o t.files[k].path, length |-> t.files[k].length]]
    ELSE << [path |-> <<t.name>>, length |-> t.length] >>

files_in_torrent(t) ==
    { normalize_path(torrent_files(t)[k].path) : k \in 1..Len(torrent_files(t)) }

get_media_files(f, dir) ==
    { normalize_path(relative_to(p, dir)) : p \in { q \in DOMAIN f : IsUnder(q, dir) } }

RECURSIVE SumLengths(_)
SumLengths(es) == IF es = <<>> THEN 0 ELSE Head(es).length + SumLengths(Tail(es))

\* ----------------------------------------------------------- media indexing
\* folder_stats as the dict is built: <<folder, total_size, file_count>> in
\* insertion order, folders without counted files left out
FolderStats(f, order, root) ==
    LET ds == rglob_dirs(f, order, root)
        counted(d) == SelectSeq(rglob_files(f, order, d), LAMBDA p : ~is_ignored(name(p)))
        all == [k \in 1..Len(ds) |->
                  <<ds[k], SumSizes(f, counted(ds[k])), Len(counted(ds[k]))>>]
    IN SelectSeq(all, LAMBDA e : e[3] > 0)

\* media_by_size as the defaultdict is built: <<size, files>> in insertion order
MediaBySize(f, order, root) ==
    LET files == SelectSeq(rglob_files(f, order, root), LAMBDA p : ~is_ignored(name(p)))
        sizes == Dedup([k \in 1..Len(files) |-> f[files[k]].size])
    IN [k \in 1..Len(sizes) |->
          <<sizes[k], SelectSeq(files, LAMBDA p : f[p].size = sizes[k])>>]

\* ------------------------------------------------------------------ matching
single_matches_signed(mbs, file_size, t) ==
    Flatten([k \in 1..Len(mbs) |->
               IF mbs[k][1] - file_size <= t THEN mbs[k][2] ELSE <<>>])

\* single-file torrent: the files of every size within the tolerance
single_matches(mbs, file_size, t) ==
    Flatten([k \in 1..Len(mbs) |->
               IF Abs(mbs[k][1] - file_size) <= t THEN mbs[k][2] ELSE <<>>])

multi_matches_nocount(fst, total_size, file_count, t) ==
    LET hit == SelectSeq(fst, LAMBDA e : Abs(e[2] - total_size) <= t)
    IN [k \in 1..Len(hit) |-> hit[k][1]]

\* multi-file torrent: the folders of that size (within the tolerance) and count
multi_matches(fst, total_size, file_count, t) ==
    LET hit == SelectSeq(fst, LAMBDA e : Abs(e[2] - total_size) <= t /\ e[3] = file_count)
    IN [k \in 1..Len(hit) |-> hit[k][1]]

\* the result entry of one torrent
result_entry(n, t, fst, mbs, tl) ==
    LET tfs == torrent_files(t)
    IN [torrent |-> n,
        media |-> IF Len(tfs) = 1
                  THEN single_matches(mbs, tfs[1].length, tl)
                  ELSE multi_matches(fst, SumLengths(tfs), Len(tfs), tl)]

\* the main comparison loop: one entry per torrent that lists files
compare_results(f, dec, names, dir, fst, mbs, tl) ==
    LET listed == SelectSeq(names,
                    LAMBDA n : Len(torrent_files(from_file(f, dec, dir \o <<n>>))) > 0)
    IN [k \in 1..Len(listed) |->
          result_entry(listed[k], from_file(f, dec, dir \o <<listed[k]>>), fst, mbs, tl)]


\* -------------------------------------------------------------------- report
\* report_torrent_media_mismatches: the paths printed as extra media files and
\* the <<torrent, path>> pairs printed as missing
ReportOutput(f, dec, tdir, mdir) ==
    LET names == { name(p) : p \in { q \in DOMAIN f :
                                       parent(q) = tdir /\ contains(name(q), DOT_TORRENT) } }
        tor(n) == from_file(f, dec, tdir \o <<n>>)
        media_files == get_media_files(f, mdir)
        all_torrent_files == UNION { files_in_torrent(tor(n)) : n \in names }
        missing_by_torrent ==
            UNION { { <<n, x>> : x \in { y \in files_in_torrent(tor(n)) :
                                           y \notin media_files /\ ~is_ignored(name(y)) } } :
                    n \in names }
        extra_media_files == media_files \ all_torrent_files
    IN [extra |-> { x \in extra_media_files : ~is_ignored(name(x)) },
        missing |-> { m \in missing_by_torrent : ~is_ignored(name(m[2])) }]

AllDecode(f, dec, tdir) ==
    \A p \in { q \in DOMAIN f : parent(q) = tdir /\ contains(name(q), DOT_TORRENT) } :
        CanDecode(f, dec, p)

\* ------------------------------------------------------------------ actions
\* compare_torrents_with_media(torrent_dir, media_dir, size_tolerance_bytes);
\* a torrent the decoder rejects raises out of get_torrent_files
Compare ==
    /\ pc = "start"
    /\ mode \in {"collect", "match"}
    /\ IF ~AllDecode(fs, decoder, <<TORRENTS_IN>>)
       THEN /\ pc' = "aborted"
            /\ UNCHANGED <<compareVars, item, ent>>
       ELSE LET fst == FolderStats(fs, scan, <<MEDIA_IN>>)
                mbs == MediaBySize(fs, scan, <<MEDIA_IN>>)
            IN /\ folder_stats' = fst
               /\ media_by_size' = mbs
               /\ results' = compare_results(fs, decoder,
                                 glob_torrents(fs, tlist, <<TORRENTS_IN>>),
                                 <<TORRENTS_IN>>, fst, mbs, tol)
               /\ pc' = IF mode = "collect" THEN "item" ELSE "compared"
               /\ item' = 1
               /\ ent' = 0
    /\ UNCHANGED <<fs, inputVars, run, wr, log, printed, prev, changed,
                   resolverVars, callVars>>

\* the run is over; one media file is rewritten with a size that differs by
\* more than the tolerance, or by more than twice the tolerance, and the
\* comparison is run again on the changed tree
Resize ==
    /\ pc = "compared"
    /\ mode = "match"
    /\ changed = <<>>
    /\ \E p \in { q \in DOMAIN fs : IsUnder(q, <<MEDIA_IN>>) },
          d \in { tol + 1, 2 * tol + 1, 0 - (tol + 1), 0 - (2 * tol + 1) } :
        LET n == fs[p].size + d
        IN
          /\ n >= 0
          /\ fs' = [fs EXCEPT ![p] = [size |-> n, data |-> "edited"]]
          /\ changed' = <<p, fs[p].size, n>>
    /\ prev' = results
    /\ pc' = "start"
    /\ folder_stats' = <<>> /\ media_by_size' = <<>> /\ results' = <<>>
    /\ UNCHANGED <<inputVars, run, item, ent, wr, log, printed, resolverVars, callVars>>

\* report_torrent_media_mismatches(torrent_dir, media_dir) in report mode
Report ==
    /\ pc = "start"
    /\ mode = "report"
    /\ IF ~AllDecode(fs, decoder, <<TORRENTS_IN>>)
       THEN pc' = "aborted" /\ UNCHANGED printed
       ELSE /\ printed' = ReportOutput(fs, decoder, <<TORRENTS_IN>>, <<MEDIA_IN>>)
            /\ pc' = "done"
    /\ UNCHANGED <<fs, inputVars, run, compareVars, item, ent, wr, log, prev, changed,
                   resolverVars, callVars>>

\* --------------------------------------------------- inputs of the matcher
DirA == <<"A">>
DirB == <<"B">>
FileX == <<"x">>
FileY == <<"y">>
FileZ == <<"z">>
FileR == <<"r">>
DS_Store == <<".","D","S","_","S","t","o","r","e">>
SynoX == <<"x","@","S","y","n","o","R","e","s","o","u","r","c","e">>
TorrentA == <<"a",".","t","o","r","r","e","n","t">>

\* the media files a tree may hold, in listing order; the three files of the
\* folders take any size, the others are of one byte
MatchPool == <<
    <<MEDIA_IN, FileR>>,
    <<MEDIA_IN, DirA, FileX>>,
    <<MEDIA_IN, DirA, FileY>>,
    <<MEDIA_IN, DirA, DirB, FileZ>>,
    <<MEDIA_IN, DirA, DS_Store>>,
    <<MEDIA_IN, DirA, DirB, SynoX>> >>

\* the paths a multi-file manifest declares, in declaration order
EntryPaths == << <<FileX>>, <<DS_Store>>, <<DirB, FileZ>>, <<FileY>>, <<FileR>> >>

\* the media trees: 0 marks a path that is absent
MatchTrees ==
    { s \in [1..Len(MatchPool) -> 0..MaxSize] : \A k \in {1, 5, 6} : s[k] <= 1 }

TreeFiles(s) ==
    LET present == { k \in 1..Len(MatchPool) : s[k] > 0 }
    IN [p \in { MatchPool[k] : k \in present } |->
          [size |-> s[CHOOSE k \in present : MatchPool[k] = p], data |-> p]]

\* the decoded torrents: single-file format named r, or a folder A of n entries
\* of which the first two take any length
MatchTorrents ==
    { [ok |-> TRUE, bytes |-> 1, name |-> FileR, hasFiles |-> FALSE,
       files |-> <<>>, length |-> n] : n \in 1..MaxSize }
    \cup
    UNION { { [ok |-> TRUE, bytes |-> 1, name |-> DirA, hasFiles |-> TRUE,
               files |-> [k \in 1..n |-> [path |-> EntryPaths[k], length |-> ls[k]]],
               length |-> 0] :
              ls \in { l \in [1..n -> 1..MaxSize] : \A k \in 3..n : l[k] = 1 } } :
            n \in 1..MaxEntries }

Idle ==
    /\ pc = "start" /\ run = 1
    /\ folder_stats = <<>> /\ media_by_size = <<>> /\ results = <<>>
    /\ item = 0 /\ ent = 0 /\ wr = <<>> /\ log = <<>>
    /\ printed = [extra |-> {}, missing |-> {}]
    /\ prev = <<>> /\ changed = <<>>
    /\ tf_name = <<>> /\ size_matches = <<>> /\ scores = <<>> /\ candidate = <<>>
    /\ src = <<>> /\ dest = <<>> /\ overwrite = TRUE

InitMatch ==
    /\ \E s \in MatchTrees, t \in MatchTorrents :
          /\ fs = (<<TORRENTS_IN, TorrentA>> :> [size |-> 1, data |-> "a"]) @@ TreeFiles(s)
          /\ decoder = ("a" :> t)
    /\ scan = MatchPool
    /\ tlist = <<TorrentA>>
    /\ tol \in {0, MaxTol}
    /\ mode \in {"match", "report"}
    /\ Idle

NextMatch == Compare \/ Resize \/ Report

SpecMatch == InitMatch /\ [][NextMatch]_vars


\* ------------------------------------------ properties of index and matcher
RECURSIVE SetSum(_, _)
SetSum(f, S) ==
    IF S = {} THEN 0
    ELSE LET x == CHOOSE y \in S : TRUE IN f[x].size + SetSum(f, S \ {x})

\* a file name of the deny-list, or one ending with a denied suffix
IgnoredName(n) ==
    \/ n \in ignored
    \/ \E suf \in ignored_suffixes :
          Len(n) >= Len(suf) /\ \A k \in 1..Len(suf) : n[Len(n) - Len(suf) + k] = suf[k]

MediaFiles == { p \in DOMAIN fs : IsUnder(p, <<MEDIA_IN>>) }
MediaFolders == DirsBelow(fs, <<MEDIA_IN>>)
CountedUnder(d) == { p \in MediaFiles : IsUnder(p, d) /\ ~IgnoredName(name(p)) }

TheTorrent == decoder["a"]
TheEntries == torrent_files(TheTorrent)
Candidates(res) == IF res = <<>> THEN {} ELSE Range(res[1].media)

\* a folder is a candidate of the multi-file torrent iff count and size agree
FolderMatchIff ==
    (pc = "compared" /\ Len(TheEntries) >= 2) =>
        \A d \in MediaFolders :
            d \in Candidates(results) <=>
                /\ Cardinality(CountedUnder(d)) = Len(TheEntries)
                /\ Abs(SetSum(fs, CountedUnder(d)) - SumLengths(TheEntries)) <= tol

\* C1 as stated: for a torrent of 2 or more entries a folder is a candidate iff
\* its count of non-ignored files equals the entry count and its aggregate size
\* is within the tolerance of the total; and after the size of one file inside
\* a matching folder changed by more than the tolerance, the folder is no
\* candidate any more.
C1_AsStated ==
    /\ FolderMatchIff
    /\ (pc = "compared" /\ Len(TheEntries) >= 2 /\ changed # <<>>) =>
          \A d \in Candidates(prev) :
              (IsUnder(changed[1], d) /\ Abs(changed[3] - changed[2]) > tol)
                  => d \notin Candidates(results)

\* C1 amended: the same equivalence for the folders below the media root; and
\* after the size of one non-ignored file inside a matching folder changed by
\* more than twice the tolerance, the folder is no candidate any more.
C1_FolderMatch ==
    /\ FolderMatchIff
    /\ (pc = "compared" /\ Len(TheEntries) >= 2 /\ changed # <<>>) =>
          \A d \in Candidates(prev) :
              (/\ IsUnder(changed[1], d)
               /\ ~IgnoredName(name(changed[1]))
               /\ Abs(changed[3] - changed[2]) > 2 * tol)
                  => d \notin Candidates(results)

\* a folder of two counted files matched within a non-zero tolerance, then one
\* of its files changed by more than twice the tolerance and the folder is gone
C1_Witness ==
    /\ pc = "compared" /\ changed # <<>> /\ tol = 1 /\ Len(TheEntries) = 2
    /\ \E d \in Candidates(prev) :
          /\ IsUnder(changed[1], d)
          /\ ~IgnoredName(name(changed[1]))
          /\ Abs(changed[3] - changed[2]) > 2 * tol
          /\ Cardinality(CountedUnder(d)) = 2
          /\ d \notin Candidates(results)

\* C2 as stated: for a torrent of one entry of length L the candidates are
\* exactly the media files under the media root whose size is within the
\* tolerance of L (exactly L at tolerance 0).
C2_AsStated ==
    (pc = "compared" /\ Len(TheEntries) = 1) =>
        Candidates(results) =
            { p \in MediaFiles : Abs(fs[p].size - TheEntries[1].length) <= tol }

\* C2 amended: the candidates are exactly the media files with a name that is
\* not ignored whose size is within the tolerance of L.
C2_SingleMatch ==
    (pc = "compared" /\ Len(TheEntries) = 1) =>
        Candidates(results) =
            { p \in MediaFiles : /\ ~IgnoredName(name(p))
                                 /\ Abs(fs[p].size - TheEntries[1].length) <= tol }

\* a one-entry torrent with a candidate of another size than L, a file outside
\* the tolerance, and an ignored file of size L that is no candidate
C2_Witness ==
    /\ pc = "compared" /\ Len(TheEntries) = 1 /\ tol = 1
    /\ \E p \in Candidates(results) : fs[p].size # TheEntries[1].length
    /\ \E p \in MediaFiles \ Candidates(results) :
          ~IgnoredName(name(p)) /\ Abs(fs[p].size - TheEntries[1].length) > tol
    /\ \E p \in MediaFiles \ Candidates(results) :
          IgnoredName(name(p)) /\ fs[p].size = TheEntries[1].length

\* C7: a file with an ignored name adds to no folder's size or count, is in no
\* bucket of the size index, and is printed neither as extra nor as missing.
C7_IgnoreConsistent ==
    /\ \A k \in 1..Len(folder_stats) :
          /\ folder_stats[k][3] = Cardinality(CountedUnder(folder_stats[k][1]))
          /\ folder_stats[k][2] = SetSum(fs, CountedUnder(folder_stats[k][1]))
    /\ \A k \in 1..Len(media_by_size) :
          \A p \in Range(media_by_size[k][2]) : ~IgnoredName(name(p))
    /\ \A x \in printed.extra : ~IgnoredName(name(x))
    /\ \A m \in printed.missing : ~IgnoredName(name(m[2]))

\* a report over a tree with an unreferenced ignored file and a torrent that
\* lists an ignored file the tree lacks, with something printed on both sides
C7_WitnessReport ==
    /\ pc = "done" /\ mode = "report"
    /\ printed.extra # {} /\ printed.missing # {}
    /\ <<MEDIA_IN, DirA, DirB, SynoX>> \in DOMAIN fs
    /\ <<MEDIA_IN, DirA, DS_Store>> \notin DOMAIN fs
    /\ <<DirA, DS_Store>> \in files_in_torrent(TheTorrent)

\* the folders that folder_stats holds an entry for
IndexedFolders == { folder_stats[k][1] : k \in 1..Len(folder_stats) }

\* C11 as stated: after indexing, folder_stats holds the entry (aggregate size,
\* file count) of the media root whenever a non-ignored file lies anywhere
\* below the root; and a torrent of 2 or more entries whose count and total
\* size equal those of the files below the root has the root as a candidate.
C11_AsStated ==
    (pc = "compared") =>
        /\ CountedUnder(<<MEDIA_IN>>) # {} =>
              \E k \in 1..Len(folder_stats) :
                  /\ folder_stats[k][1] = <<MEDIA_IN>>
                  /\ folder_stats[k][2] = SetSum(fs, CountedUnder(<<MEDIA_IN>>))
                  /\ folder_stats[k][3] = Cardinality(CountedUnder(<<MEDIA_IN>>))
        /\ (/\ Len(TheEntries) >= 2
            /\ Cardinality(CountedUnder(<<MEDIA_IN>>)) = Len(TheEntries)
            /\ Abs(SetSum(fs, CountedUnder(<<MEDIA_IN>>)) - SumLengths(TheEntries)) <= tol)
              => <<MEDIA_IN>> \in Candidates(results)

\* what the index does hold: exactly the folders strictly below the media root
\* that have a non-ignored file in their subtree, never the root
RootNotIndexed ==
    (pc = "compared") =>
        /\ <<MEDIA_IN>> \notin IndexedFolders
        /\ IndexedFolders = { d \in MediaFolders : CountedUnder(d) # {} }

\* ------------------------------------------------------------- quick_copy
\* the alternate destination name of the no-overwrite mode
alt_name(n, size) ==
    removesuffix(removesuffix(n, DOT_TORRENT), DOT_ADDED) \o <<"_">> \o str(size) \o DOT_TORRENT

\* quick_copy without the same-size rule: an existing destination of the
\* source's size is copied over
decide_noskip(f, s, d, ow) ==
    IF s = d THEN [act |-> "same", to |-> d]
    ELSE IF s \notin DOMAIN f THEN [act |-> "failed", to |-> d]
    ELSE IF ~ow /\ d \in DOMAIN f /\ f[d].size # f[s].size
         THEN LET d2 == with_name(d, alt_name(name(d), f[s].size))
              IN IF d2 = s THEN [act |-> "failed", to |-> d2]
                 ELSE [act |-> "copy", to |-> d2]
    ELSE [act |-> "copy", to |-> d]

\* what quick_copy(src, dest, overwrite) does: nothing when both are the same
\* file, a skip, a failed copy (the exception is caught and printed), or a copy
\* to the destination or to its alternate name
decide(f, s, d, ow) ==
    IF s = d THEN [act |-> "same", to |-> d]
    ELSE IF s \notin DOMAIN f THEN [act |-> "failed", to |-> d]
    ELSE IF ow /\ d \in DOMAIN f /\ f[d].size = f[s].size THEN [act |-> "skip", to |-> d]
    ELSE IF ~ow /\ d \in DOMAIN f /\ f[d].size # f[s].size
         THEN LET d2 == with_name(d, alt_name(name(d), f[s].size))
              IN IF d2 = s THEN [act |-> "failed", to |-> d2]
                 ELSE [act |-> "copy", to |-> d2]
    ELSE [act |-> "copy", to |-> d]

\* the filesystem after shutil.copy2(s, d) has finished
copied(f, s, d) == (d :> f[s]) @@ f

\* the filesystem while shutil.copy2(s, d) has written k bytes
partial(f, s, d, k) == (d :> [size |-> k, data |-> <<"part", f[s].data>>]) @@ f

apply(f, s, dec) == IF dec.act = "copy" THEN copied(f, s, dec.to) ELSE f

\* one call of quick_copy from start to end, on the arguments of the state
QuickCopy ==
    /\ mode = "copy"
    /\ Len(log) < MaxCalls
    /\ LET dec == decide(fs, src, dest, overwrite)
       IN /\ fs' = apply(fs, src, dec)
          /\ log' = Append(log, [src |-> src, dest |-> dec.to, act |-> dec.act])
          /\ prev' = Append(prev, apply(fs, src, dec))
    /\ UNCHANGED <<inputVars, pc, run, compareVars, item, ent, wr, printed, changed,
                   resolverVars, callVars>>

\* ------------------------------------------------- inputs of the copy engine
CopySrc == <<TORRENTS_IN, TorrentA>>
TorrentAAdded == <<"a",".","t","o","r","r","e","n","t",".","a","d","d","e","d">>
TorrentAdded == <<"a",".","a","d","d","e","d">>
CopyDestNames == { TorrentA, TorrentAdded, TorrentAAdded }

\* the names an alternate destination can take here
AltNames == { alt_name(n, k) : n \in CopyDestNames, k \in 1..MaxSize }

\* the output directory before the call: any of the destination and alternate
\* names may already hold a file
CopyDirs ==
    { e \in [CopyDestNames \cup AltNames -> 0..MaxSize] :
        Cardinality({ n \in DOMAIN e : e[n] > 0 }) <= 2 }

InitCopy ==
    /\ \E n \in 1..MaxSize, e \in CopyDirs :
          fs = (CopySrc :> [size |-> n, data |-> "a"])
               @@ [p \in { <<TORRENTS_OUT, m>> : m \in { x \in DOMAIN e : e[x] > 0 } } |->
                     [size |-> e[name(p)], data |-> <<"old", name(p)>>]]
    /\ src = CopySrc
    /\ \E n \in CopyDestNames : dest = <<TORRENTS_OUT, n>>
    /\ overwrite \in BOOLEAN
    /\ mode = "copy"
    /\ prev = <<fs>>
    /\ scan = <<>> /\ tlist = <<>> /\ decoder = <<>> /\ tol = 0
    /\ pc = "start" /\ run = 1
    /\ folder_stats = <<>> /\ media_by_size = <<>> /\ results = <<>>
    /\ item = 0 /\ ent = 0 /\ wr = <<>> /\ log = <<>>
    /\ printed = [extra |-> {}, missing |-> {}]
    /\ changed = <<>>
    /\ tf_name = <<>> /\ size_matches = <<>> /\ scores = <<>> /\ candidate = <<>>

NextCopy == QuickCopy

SpecCopy == InitCopy /\ [][NextCopy]_vars

\* --------------------------------------------- properties of the copy engine
\* C4 as stated: two calls in a row with the same source, destination and
\* overwrite mode, the first of which has something to transfer (no same-size
\* file at the destination), make one transfer, the first, and one skip, the
\* second, and the second call leaves the destination as the first left it.
C4_AsStated ==
    (/\ Len(log) = 2
     /\ src \in DOMAIN prev[1]
     /\ ~(dest \in DOMAIN prev[1] /\ prev[1][dest].size = prev[1][src].size))
        => /\ log[1].act = "copy"
           /\ log[2].act = "skip"
           /\ dest \in DOMAIN fs
           /\ fs[dest] = prev[2][dest]

\* C8 as stated: in no-overwrite mode with a destination of another size than
\* the source, the destination stays as it is, the source is copied to the
\* alternate name, and no file that existed before the call is overwritten.
C8_AsStated ==
    (/\ Len(log) = 1
     /\ ~overwrite
     /\ dest \in DOMAIN prev[1]
     /\ prev[1][dest].size # prev[1][src].size)
        => /\ fs[dest] = prev[1][dest]
           /\ log[1].act = "copy"
           /\ log[1].dest = with_name(dest, alt_name(name(dest), prev[1][src].size))
           /\ fs[log[1].dest] = prev[1][src]
           /\ \A p \in DOMAIN prev[1] : fs[p] = prev[1][p]


\* ---------------------------------------------------------------- resolver
\* [lf for lf in size_matches if lf.name.lower() == tf_path.name.lower()]
exact_name_matches(tfn, sm) == SelectSeq(sm, LAMBDA lf : lower(name(lf)) = lower(tfn))

\* the similarity of every candidate to the entry's filename, in list order;
\* computed only when no candidate has the entry's filename
score_list(tfn, sm) ==
    IF exact_name_matches(tfn, sm) # <<>> THEN <<>>
    ELSE [k \in 1..Len(sm) |-> name_similarity(tfn, name(sm[k]))]

\* index of the first candidate with the highest similarity: what stays in
\* front after scores.sort(key=score, reverse=True), a stable sort
best_index(sc) ==
    CHOOSE k \in 1..Len(sc) :
        /\ \A m \in 1..Len(sc) : ~ScoreGt(sc[m], sc[k])
        /\ \A m \in 1..(k - 1) : ScoreGt(sc[k], sc[m])

pick_candidate_first_name(tfn, sm, sc) ==
    IF sc = <<>> THEN sm[1]
    ELSE IF ScoreGt(sc[best_index(sc)], Threshold) THEN sm[best_index(sc)] ELSE sm[1]

pick_candidate_at_threshold(tfn, sm, sc) ==
    IF sc = <<>> THEN exact_name_matches(tfn, sm)[1]
    ELSE IF ~ScoreGt(Threshold, sc[best_index(sc)]) THEN sm[best_index(sc)] ELSE sm[1]

\* the candidate chosen for an entry named tfn among the non-empty list sm of
\* files of the entry's size, sc being the score list
pick_candidate(tfn, sm, sc) ==
    IF sc = <<>> THEN exact_name_matches(tfn, sm)[1]
    ELSE IF ScoreGt(sc[best_index(sc)], Threshold) THEN sm[best_index(sc)] ELSE sm[1]

\* the resolution of one manifest entry, on the entry and candidates of the state
Resolve ==
    /\ mode = "resolve"
    /\ pc = "start"
    /\ scores' = score_list(tf_name, size_matches)
    /\ candidate' = pick_candidate(tf_name, size_matches, scores')
    /\ pc' = "done"
    /\ UNCHANGED <<fs, inputVars, run, compareVars, item, ent, wr, log, printed, prev,
                   changed, tf_name, size_matches, callVars>>

\* --------------------------------------------------- inputs of the resolver
Name_ab_x == <<"a","b",".","x">>
Name_AB_x == <<"A","B",".","x">>
Name_a_b_x == <<"a","_","b",".","x">>
Name_ab_y == <<"a","b",".","y">>
Name_ba_x == <<"b","a",".","x">>
Name_cd_x == <<"c","d",".","x">>
\* two stems of 20 characters sharing their first 11: similarity 22/40 = 0.55
Name_long1 == [k \in 1..20 |-> IF k <= 11 THEN "a" ELSE "b"]
Name_long2 == [k \in 1..20 |-> IF k <= 11 THEN "a" ELSE "c"]

ResolveEntryNames == { Name_ab_x, Name_long1 }

ResolveCandidates == {
    <<MEDIA_IN, DirA, Name_ab_x>>,
    <<MEDIA_IN, DirA, DirB, Name_AB_x>>,
    <<MEDIA_IN, DirA, Name_a_b_x>>,
    <<MEDIA_IN, DirA, Name_ab_y>>,
    <<MEDIA_IN, DirA, Name_ba_x>>,
    <<MEDIA_IN, DirA, DirB, Name_a_b_x>>,
    <<MEDIA_IN, DirA, Name_cd_x>>,
    <<MEDIA_IN, DirA, Name_long2>> }

InitResolve ==
    /\ tf_name \in ResolveEntryNames
    /\ \E n \in 1..MaxCands : size_matches \in [1..n -> ResolveCandidates]
    /\ scores = <<>> /\ candidate = <<>>
    /\ mode = "resolve"
    /\ fs = <<>> /\ scan = <<>> /\ tlist = <<>> /\ decoder = <<>> /\ tol = 0
    /\ pc = "start" /\ run = 1
    /\ folder_stats = <<>> /\ media_by_size = <<>> /\ results = <<>>
    /\ item = 0 /\ ent = 0 /\ wr = <<>> /\ log = <<>>
    /\ printed = [extra |-> {}, missing |-> {}]
    /\ prev = <<>> /\ changed = <<>>
    /\ src = <<>> /\ dest = <<>> /\ overwrite = TRUE

NextResolve == Resolve

SpecResolve == InitResolve /\ [][NextResolve]_vars

\* ------------------------------------------------ properties of the resolver
SameNameNoCase(a, b) ==
    /\ Len(a) = Len(b)
    /\ \A k \in 1..Len(a) : lowerChar(a[k]) = lowerChar(b[k])

ExactCandidates == { p \in Range(size_matches) : SameNameNoCase(name(p), tf_name) }

\* C9: when exactly one size-matching candidate has the entry's filename
\* ignoring case, that candidate is chosen, whatever the other candidates.
C9_ExactNameChosen ==
    (pc = "done" /\ mode = "resolve" /\ Cardinality(ExactCandidates) = 1)
        => candidate \in ExactCandidates

\* the single candidate of the entry's name comes last, after two others of
\* which one scores as high as it does, and it is chosen
C9_Witness ==
    /\ pc = "done" /\ mode = "resolve"
    /\ Cardinality(ExactCandidates) = 1
    /\ Len(size_matches) = 3
    /\ size_matches[3] \in ExactCandidates
    /\ name(size_matches[3]) # tf_name
    /\ stem(name(size_matches[1])) = stem(tf_name)
    /\ candidate = size_matches[3]

\* C10: when no candidate has the entry's filename, the chosen file is the
\* first candidate with the highest score if that score is above 0.55, and the
\* first candidate of the list otherwise.
C10_FuzzyChoice ==
    (pc = "done" /\ mode = "resolve" /\ ExactCandidates = {}) =>
        LET sc == scores
            tops == { k \in 1..Len(sc) :
                        \A m \in 1..Len(sc) : sc[m][1] * sc[k][2] <= sc[k][1] * sc[m][2] }
            first == CHOOSE k \in tops : \A m \in tops : k <= m
        IN IF 20 * sc[first][1] > 11 * sc[first][2]
           THEN candidate = size_matches[first]
           ELSE candidate = size_matches[1]

\* no candidate of the entry's name, the best score is exactly 0.55 and belongs
\* to a later candidate, and the first candidate of the list is chosen
C10_Witness ==
    /\ pc = "done" /\ mode = "resolve" /\ ExactCandidates = {}
    /\ Len(size_matches) >= 2
    /\ LET sc == scores
       IN \E k \in 2..Len(sc) :
             /\ 20 * sc[k][1] = 11 * sc[k][2]
             /\ \A m \in 1..Len(sc) : m # k => ScoreGt(sc[k], sc[m])
    /\ candidate = size_matches[1]

\* no candidate of the entry's name, two candidates share the best score above
\* 0.55, and the one listed first is chosen
C10_WitnessTie ==
    /\ pc = "done" /\ mode = "resolve" /\ ExactCandidates = {}
    /\ LET sc == scores
       IN \E k, m \in 1..Len(sc) :
             /\ k < m
             /\ size_matches[k] # size_matches[m]
             /\ sc[k] = sc[m]
             /\ ScoreGt(sc[k], Threshold)
             /\ \A j \in 1..(k - 1) : ScoreGt(sc[k], sc[j])
             /\ candidate = size_matches[k]


\* ------------------------------------------------ collect_torrents_and_media
\* str.strip for spaces
RECURSIVE strip(_)
strip(n) ==
    IF n = <<>> THEN n
    ELSE IF Head(n) = " " THEN strip(Tail(n))
    ELSE IF n[Len(n)] = " " THEN strip(SubSeq(n, 1, Len(n) - 1))
    ELSE n

Unknown_Torrent == <<"U","n","k","n","o","w","n","_","T","o","r","r","e","n","t">>

\* info.get("name") or torrent_obj.name or "Unknown_Torrent", made safe
safe_name(t) ==
    strip(replaceChar(IF t.name = <<>> THEN Unknown_Torrent ELSE t.name, "/", "_"))

\* where the torrent file goes: a trailing .added is dropped
dest_torrent_path(n) ==
    IF suffix(n) = DOT_ADDED
    THEN <<TORRENTS_OUT, stem(n)>>
    ELSE <<TORRENTS_OUT, n>>

\* info.get("files", []) is a non-empty list
has_entries(t) == t.hasFiles /\ t.files # <<>>

\* the files of an entry's length below the matched locations; a matched
\* location that is a file has nothing below it
entry_size_matches(f, order, matches, length) ==
    Flatten([k \in 1..Len(matches) |->
               SelectSeq(rglob_files(f, order, matches[k]),
                         LAMBDA lf : f[lf].size = length)])

\* the number of media steps of an item: one per entry, or one per match
media_steps(it, t) == IF has_entries(t) THEN Len(t.files) ELSE Len(it.media)

\* the quick_copy call of media step k of an item, <<>> when the entry has no
\* local file of its size
media_call(f, order, it, t, k) ==
    IF has_entries(t)
    THEN LET tf == t.files[k]
             sm == entry_size_matches(f, order, it.media, tf.length)
         IN IF sm = <<>> THEN <<>>
            ELSE << [src |-> pick_candidate(name(tf.path), sm, score_list(name(tf.path), sm)),
                     dest |-> <<MEDIA_OUT, safe_name(t)>> \o tf.path,
                     ow |-> TRUE] >>
    ELSE << [src |-> it.media[k], dest |-> <<MEDIA_OUT, t.name>>, ow |-> TRUE] >>

\* quick_copy(s, d, ow) up to the point where shutil.copy2 has started writing
begin_copy(s, d, ow) ==
    LET dec == decide(fs, s, d, ow)
    IN /\ log' = Append(log, [src |-> s, dest |-> dec.to, act |-> dec.act])
       /\ IF dec.act = "copy"
          THEN /\ \E k \in 0..Max(fs[s].size - 1, 0) : fs' = partial(fs, s, dec.to, k)
               /\ wr' = <<s, dec.to>>
               /\ pc' = "writing"
          ELSE /\ pc' = "entries"
               /\ UNCHANGED <<fs, wr>>

\* top of the loop over results: an item without matches or with a torrent
\* that cannot be loaded is passed over, otherwise the torrent file is copied
CopyTorrent ==
    /\ pc = "item"
    /\ mode = "collect"
    /\ item <= Len(results)
    /\ LET it == results[item]
           tp == <<TORRENTS_IN, it.torrent>>
       IN IF it.media = <<>> \/ ~CanDecode(fs, decoder, tp)
          THEN /\ item' = item + 1
               /\ UNCHANGED <<fs, pc, ent, wr, log>>
          ELSE /\ begin_copy(tp, dest_torrent_path(it.torrent), FALSE)
               /\ ent' = 1
               /\ item' = item
    /\ UNCHANGED <<inputVars, run, compareVars, printed, prev, changed, resolverVars, callVars>>

\* one entry of a multi-file torrent, or one match of a single-file torrent
CopyMedia ==
    /\ pc = "entries"
    /\ mode = "collect"
    /\ LET it == results[item]
           t == from_file(fs, decoder, <<TORRENTS_IN, it.torrent>>)
       IN IF ent > media_steps(it, t)
          THEN /\ item' = item + 1
               /\ ent' = 0
               /\ pc' = "item"
               /\ UNCHANGED <<fs, wr, log, resolverVars>>
          ELSE LET c == media_call(fs, scan, it, t, ent)
               IN /\ item' = item
                  /\ ent' = ent + 1
                  /\ IF has_entries(t)
                     THEN LET tf == t.files[ent]
                              sm == entry_size_matches(fs, scan, it.media, tf.length)
                          IN /\ tf_name' = name(tf.path)
                             /\ size_matches' = sm
                             /\ scores' = IF sm = <<>> THEN <<>> ELSE score_list(name(tf.path), sm)
                             /\ candidate' = IF c = <<>> THEN candidate ELSE c[1].src
                     ELSE UNCHANGED resolverVars
                  /\ IF c = <<>>
                     THEN UNCHANGED <<fs, pc, wr, log>>
                     ELSE begin_copy(c[1].src, c[1].dest, c[1].ow)
    /\ UNCHANGED <<inputVars, run, compareVars, printed, prev, changed, callVars>>

\* shutil.copy2 runs to its end
FinishWrite ==
    /\ pc = "writing"
    /\ fs' = copied(fs, wr[1], wr[2])
    /\ wr' = <<>>
    /\ pc' = "entries"
    /\ UNCHANGED <<inputVars, run, compareVars, item, ent, log, printed, prev, changed,
                   resolverVars, callVars>>

\* after the last item, the report is run on the two output directories
FinalReport ==
    /\ pc = "item"
    /\ mode = "collect"
    /\ item > Len(results)
    /\ IF ~AllDecode(fs, decoder, <<TORRENTS_OUT>>)
       THEN pc' = "report_aborted" /\ UNCHANGED printed
       ELSE /\ printed' = ReportOutput(fs, decoder, <<TORRENTS_OUT>>, <<MEDIA_OUT>>)
            /\ pc' = "done"
    /\ UNCHANGED <<fs, inputVars, run, compareVars, item, ent, wr, log, prev, changed,
                   resolverVars, callVars>>

\* the process is killed during collection, whatever it is doing, and the same
\* command is started again; a file being written stays as far as it got
Kill ==
    /\ run = 1
    /\ mode = "collect"
    /\ pc \in {"item", "entries", "writing"}
    /\ run' = 2
    /\ pc' = "start"
    /\ wr' = <<>>
    /\ item' = 0 /\ ent' = 0
    /\ folder_stats' = <<>> /\ media_by_size' = <<>> /\ results' = <<>>
    /\ tf_name' = <<>> /\ size_matches' = <<>> /\ scores' = <<>> /\ candidate' = <<>>
    /\ UNCHANGED <<fs, inputVars, log, printed, prev, changed, callVars>>


\* ----------------------------------------------------- inputs of a whole run
PS2 == <<"P","r","e","p","a","r","e","d"," ","P","l","a","y","s","t","a","t","i","o","n"," ","2">>
PS2Torrent == PS2 \o DOT_TORRENT
VIDEO_TS == <<"V","I","D","E","O","_","T","S">>
VTS_01_0_BUP == <<"V","T","S","_","0","1","_","0",".","B","U","P">>
RANDOM_FILE_BUP == <<"R","A","N","D","O","M","_","F","I","L","E",".","B","U","P">>
VTS_01_1_VOB == <<"V","T","S","_","0","1","_","1",".","V","O","B">>

\* the scenario of test_copy_files_integration: one declared file of length 100
\* in the files list, and three media files in the folder of the torrent's name
PS2Scenario ==
    [fs |-> (<<TORRENTS_IN, PS2Torrent>> :> [size |-> 2, data |-> "ps2"])
            @@ (<<MEDIA_IN, PS2, VIDEO_TS, VTS_01_0_BUP>> :> [size |-> 100, data |-> "bup0"])
            @@ (<<MEDIA_IN, PS2, VIDEO_TS, RANDOM_FILE_BUP>> :> [size |-> 100, data |-> "random"])
            @@ (<<MEDIA_IN, PS2, VIDEO_TS, VTS_01_1_VOB>> :> [size |-> 300, data |-> "vob1"]),
     decoder |-> ("ps2" :> [ok |-> TRUE, bytes |-> 2, name |-> PS2, hasFiles |-> TRUE,
                            files |-> << [path |-> <<VIDEO_TS, VTS_01_0_BUP>>, length |-> 100] >>,
                            length |-> 0]),
     tlist |-> <<PS2Torrent>>,
     scan |-> << <<MEDIA_IN, PS2, VIDEO_TS, VTS_01_0_BUP>>,
                 <<MEDIA_IN, PS2, VIDEO_TS, RANDOM_FILE_BUP>>,
                 <<MEDIA_IN, PS2, VIDEO_TS, VTS_01_1_VOB>> >>]

TorrentB == <<"b",".","t","o","r","r","e","n","t",".","a","d","d","e","d">>

\* a.torrent declares folder A with the files x and y
DecodedA(l1, l2) ==
    [ok |-> TRUE, bytes |-> 2, name |-> DirA, hasFiles |-> TRUE,
     files |-> << [path |-> <<FileX>>, length |-> l1], [path |-> <<FileY>>, length |-> l2] >>,
     length |-> 0]

\* b.torrent.added is a file the decoder rejects (length 0), or declares the
\* single file r
DecodedB(l) ==
    [ok |-> l > 0, bytes |-> 1, name |-> FileR, hasFiles |-> FALSE, files |-> <<>>, length |-> l]

RunScan == << <<MEDIA_IN, FileR>>, <<MEDIA_IN, DirA, FileX>>, <<MEDIA_IN, DirA, FileY>>,
              <<MEDIA_IN, DirA, FileZ>> >>

\* media folder A with x and a second file, named y as in the manifest or z,
\* possibly a file r beside it; a.torrent, and possibly b.torrent.added, listed
\* before or after it
RunScenarios ==
    { [fs |-> (<<TORRENTS_IN, TorrentA>> :> [size |-> 2, data |-> "a"])
              @@ (<<MEDIA_IN, DirA, FileX>> :> [size |-> xs, data |-> "x"])
              @@ (<<MEDIA_IN, DirA, yn>> :> [size |-> ys, data |-> "y"])
              @@ (IF rs > 0 THEN <<MEDIA_IN, FileR>> :> [size |-> rs, data |-> "r"] ELSE <<>>)
              @@ (IF b >= 0 THEN <<TORRENTS_IN, TorrentB>> :> [size |-> 1, data |-> "b"] ELSE <<>>),
       decoder |-> ("a" :> DecodedA(l[1], l[2])) @@ ("b" :> DecodedB(Max(b, 0))),
       tlist |-> IF first THEN <<TorrentA, TorrentB>> ELSE <<TorrentB, TorrentA>>,
       scan |-> RunScan] :
      xs \in 1..MaxSize, ys \in 1..MaxSize, rs \in 0..MaxSize,
      l \in (1..MaxSize) \X (1..MaxSize), b \in (0 - 1)..MaxSize, first \in BOOLEAN,
      yn \in {FileY, FileZ} }

Init ==
    /\ \E sc \in RunScenarios \cup {PS2Scenario} :
          /\ fs = sc.fs
          /\ decoder = sc.decoder
          /\ tlist = sc.tlist
          /\ scan = sc.scan
    /\ tol = 0
    /\ mode \in {"collect", "report"}
    /\ prev = fs
    /\ pc = "start" /\ run = 1
    /\ folder_stats = <<>> /\ media_by_size = <<>> /\ results = <<>>
    /\ item = 0 /\ ent = 0 /\ wr = <<>> /\ log = <<>>
    /\ printed = [extra |-> {}, missing |-> {}]
    /\ changed = <<>>
    /\ tf_name = <<>> /\ size_matches = <<>> /\ scores = <<>> /\ candidate = <<>>
    /\ src = <<>> /\ dest = <<>> /\ overwrite = TRUE

Next ==
    \/ Compare
    \/ CopyTorrent
    \/ CopyMedia
    \/ FinishWrite
    \/ FinalReport
    \/ Kill
    \/ Report

Spec == Init /\ [][Next]_vars


\* ------------------------------------------------ properties of a whole run
Completed == pc \in {"done", "report_aborted"}

PS2Run == <<TORRENTS_IN, PS2Torrent>> \in DOMAIN fs

\* C3 as stated: in the scenario of the one declared file VIDEO_TS/VTS_01_0.BUP
\* of length 100, a completed collect run has copied the media file
\* VTS_01_0.BUP to a path below "Prepared Playstation 2" of the media output,
\* and RANDOM_FILE.BUP is the source of no copy.
C3_AsStated ==
    (mode = "collect" /\ PS2Run /\ Completed) =>
        /\ \E k \in 1..Len(log) :
              /\ log[k].act = "copy"
              /\ log[k].src = <<MEDIA_IN, PS2, VIDEO_TS, VTS_01_0_BUP>>
              /\ IsUnder(log[k].dest, <<MEDIA_OUT, PS2>>)
              /\ log[k].dest \in DOMAIN fs
        /\ \A k \in 1..Len(log) : name(log[k].src) # RANDOM_FILE_BUP

\* the quick_copy calls of one item, in order; the copies only write below the
\* two output directories, so the calls can be read off the input directories
item_calls(f, order, dec, it) ==
    LET tp == <<TORRENTS_IN, it.torrent>>
        t == from_file(f, dec, tp)
    IN IF it.media = <<>> \/ ~CanDecode(f, dec, tp) THEN <<>>
       ELSE << [src |-> tp, dest |-> dest_torrent_path(it.torrent), ow |-> FALSE] >>
            \o Flatten([k \in 1..media_steps(it, t) |-> media_call(f, order, it, t, k)])

run_calls(f, order, dec, tl) ==
    LET res == compare_results(f, dec, glob_torrents(f, tl, <<TORRENTS_IN>>), <<TORRENTS_IN>>,
                               FolderStats(f, order, <<MEDIA_IN>>),
                               MediaBySize(f, order, <<MEDIA_IN>>), 0)
    IN Flatten([k \in 1..Len(res) |-> item_calls(f, order, dec, res[k])])

RECURSIVE do_calls(_, _)
do_calls(f, cs) ==
    IF cs = <<>> THEN f
    ELSE do_calls(apply(f, Head(cs).src, decide(f, Head(cs).src, Head(cs).dest, Head(cs).ow)),
                  Tail(cs))

\* the two output directories
Output(f) ==
    [p \in { q \in DOMAIN f : IsUnder(q, <<TORRENTS_OUT>>) \/ IsUnder(q, <<MEDIA_OUT>>) } |-> f[p]]

\* what one uninterrupted collect run leaves in the output directories
UninterruptedOutput == Output(do_calls(prev, run_calls(prev, scan, decoder, tlist)))

\* C5 as stated: when a collect run was killed at some point and collect was
\* then run again to its end on the same inputs, the output directories hold
\* the files and contents that one uninterrupted run produces.
C5_AsStated ==
    (mode = "collect" /\ run = 2 /\ Completed) => Output(fs) = UninterruptedOutput

\* the same for the media output alone
MediaOutputConverges ==
    (mode = "collect" /\ run = 2 /\ Completed) =>
        \A p \in DOMAIN Output(fs) \cup DOMAIN UninterruptedOutput :
            IsUnder(p, <<MEDIA_OUT>>) =>
                /\ p \in DOMAIN Output(fs) /\ p \in DOMAIN UninterruptedOutput
                /\ fs[p] = UninterruptedOutput[p]

\* an uninterrupted run ends with the output computed above
UninterruptedRun ==
    (mode = "collect" /\ run = 1 /\ Completed) => Output(fs) = UninterruptedOutput

\* the quick_copy calls of the multi-file branch: the destination lies in the
\* folder of the torrent's name below the media output
EntryCalls ==
    { k \in 1..Len(log) : IsUnder(log[k].dest, <<MEDIA_OUT>>) /\ Len(log[k].dest) >= 3 }

\* C12 as stated: within one multi-file torrent, no media file is the chosen
\* copy source of two different manifest entries; two entries of the same
\* length are resolved to two different media files.
C12_AsStated ==
    (mode = "collect") =>
        \A j \in EntryCalls, k \in EntryCalls :
            (log[j].dest[2] = log[k].dest[2] /\ log[j].dest # log[k].dest)
                => log[j].src # log[k].src

\* the item at hand and its torrent, while its media are being copied
InMedia == mode = "collect" /\ pc \in {"entries", "writing"} /\ item \in 1..Len(results)
TheItem == results[item]
ItemTorrent == from_file(fs, decoder, <<TORRENTS_IN, TheItem.torrent>>)
SingleDest == <<MEDIA_OUT, ItemTorrent.name>>

\* the quick_copy calls made so far for the media of the item at hand
MediaCalls == SubSeq(log, Len(log) - (ent - 1) + 1, Len(log))

\* C13: for a single-file torrent with 2 or more candidates at tolerance 0,
\* the k-th media call has the k-th candidate as source and
\* media_out/<torrent name> as destination; every call after the first is
\* skipped; in a first run, where the destination does not exist beforehand,
\* the first call is a transfer; and once the write has ended, the
\* destination holds the content of the first candidate.
C13_SingleFileCopies ==
    (InMedia /\ tol = 0 /\ ~has_entries(ItemTorrent) /\ Len(TheItem.media) >= 2) =>
        /\ Len(MediaCalls) = ent - 1
        /\ \A j \in 1..Len(MediaCalls) :
              /\ MediaCalls[j].src = TheItem.media[j]
              /\ MediaCalls[j].dest = SingleDest
              /\ j >= 2 => MediaCalls[j].act = "skip"
        /\ (ent >= 2 /\ run = 1) => MediaCalls[1].act = "copy"
        /\ (ent >= 2 /\ pc = "entries") =>
              /\ SingleDest \in DOMAIN fs
              /\ fs[SingleDest] = fs[TheItem.media[1]]

\* a first run has gone through all three candidates of the single-file
\* torrent r: the first was transferred, the last was skipped, and the
\* destination holds the first candidate's content and not the last one's
C13_Witness ==
    /\ InMedia /\ tol = 0 /\ run = 1 /\ pc = "entries"
    /\ ~has_entries(ItemTorrent)
    /\ Len(TheItem.media) = 3
    /\ ent = 4
    /\ MediaCalls[1].act = "copy"
    /\ MediaCalls[3].act = "skip"
    /\ SingleDest \notin DOMAIN prev
    /\ fs[SingleDest].data = fs[TheItem.media[1]].data
    /\ fs[SingleDest].data # fs[TheItem.media[3]].data

InputTorrents ==
    { p \in DOMAIN fs : parent(p) = <<TORRENTS_IN>> /\ contains(name(p), DOT_TORRENT) }

\* C6 as stated: when one of several torrent files cannot be decoded, the run
\* does not abort, and every torrent that can be decoded and lists files has
\* its result entry (collect mode) or is covered by the report (report mode).
C6_AsStated ==
    (Cardinality(InputTorrents) >= 2 /\ ~AllDecode(fs, decoder, <<TORRENTS_IN>>)) =>
        /\ pc # "aborted"
        /\ (mode = "collect" /\ Completed) =>
              \A p \in InputTorrents : CanDecode(fs, decoder, p) =>
                  \E k \in 1..Len(results) : results[k].torrent = name(p)

====
